---- MODULE Spec2Model ----
(***************************************************************************)
(* A model of two planners of dask:                                        *)
(*   dask/order.py            static ordering of the keys of a task graph  *)
(*   dask/dataframe/multi.py  alignment, pruning and naming of the blocks  *)
(*                            of joined / concatenated dataframes          *)
(***************************************************************************)
EXTENDS Integers, Sequences, FiniteSets, TLC

VARIABLES
    pc,            \* position of the modelled call
    dependencies,  \* order.py: key -> set of keys it depends on
    dependents,    \* order.py: key -> set of keys depending on it
    ndeps,         \* order.py: result of ndependents
    maxes,         \* order.py: result of child_max (the dfs sort key)
    stack,         \* dfs: the LIFO stack (last element is the top)
    seen,          \* dfs: the set of keys already numbered
    result,        \* dfs: key -> number
    i,             \* dfs: the counter
    subtree,       \* history: key -> its not yet numbered transitive
                   \* dependencies (and itself) at the moment it is numbered
    args,          \* multi.py: the arguments of the modelled call
    ret            \* multi.py: what the modelled call returned or raised

ordervars == <<dependencies, dependents, ndeps, maxes, stack, seen, result, i, subtree>>

multivars == <<args, ret>>

vars == <<pc, ordervars, multivars>>

(***************************************************************************)
(* Bounds                                                                  *)
(***************************************************************************)
MaxKeys == 4       \* a task graph has at most this many keys
MaxTables == 2     \* align_partitions gets at most this many arguments
MaxDiv == 4        \* division values are 1..MaxDiv
MaxParts == 4      \* require gets parts of at most this many rows

(***************************************************************************)
(* Generic helpers                                                         *)
(***************************************************************************)
EmptyMap == [x \in {} |-> 0]

Range(s) == {s[n] : n \in DOMAIN s}

\* all the orders in which a set (or the keys of a dict) can be enumerated
Perms(S) == {f \in [1..Cardinality(S) -> S] : \A a, b \in DOMAIN f : a # b => f[a] # f[b]}

RECURSIVE SeqOf(_)
\* one fixed enumeration of a set of keys: ascending
SeqOf(S) ==
    IF S = {} THEN <<>>
    ELSE LET m == CHOOSE x \in S : \A y \in S : x <= y
         IN <<m>> \o SeqOf(S \ {m})

RECURSIVE SumOver(_, _)
SumOver(S, f) ==
    IF S = {} THEN 0
    ELSE LET x == CHOOSE y \in S : TRUE IN f[x] + SumOver(S \ {x}, f)

RECURSIVE MaxOver(_, _)
MaxOver(S, f) ==
    LET x == CHOOSE y \in S : TRUE
    IN IF S = {x} THEN f[x]
       ELSE LET m == MaxOver(S \ {x}, f) IN IF f[x] > m THEN f[x] ELSE m

(***************************************************************************)
(* Task graphs.  A graph is given by its dependencies map; keys are        *)
(* 1..n and are named so that a key depends on lower keys only, which      *)
(* makes every graph acyclic and well formed.                              *)
(***************************************************************************)
RECURSIVE GraphsOn(_)
GraphsOn(n) ==
    IF n = 0 THEN {EmptyMap}
    ELSE {g @@ (n :> d) : g \in GraphsOn(n - 1), d \in SUBSET (1..(n - 1))}

Graphs == UNION {GraphsOn(n) : n \in 0..MaxKeys}

\* core.get_deps: the dependents map is the inverse of the dependencies map
get_deps(deps) == [k \in DOMAIN deps |-> {j \in DOMAIN deps : k \in deps[j]}]

RECURSIVE TransDeps(_, _)
\* the transitive dependencies of key k
TransDeps(deps, k) == deps[k] \cup UNION {TransDeps(deps, d) : d \in deps[k]}

RECURSIVE TransDependents(_, _)
\* the keys that transitively depend on key k
TransDependents(depd, k) == depd[k] \cup UNION {TransDependents(depd, d) : d \in depd[k]}

(***************************************************************************)
(* order.py: ndependents, child_max                                        *)
(***************************************************************************)
RECURSIVE _ndependents(_, _, _, _)
RECURSIVE ndependents_each(_, _, _, _)

\* the calls of the list comprehension of _ndependents, one after the
\* other, each on the memo left by the one before
ndependents_each(keys, res, deps, depd) ==
    IF keys = <<>> THEN res
    ELSE ndependents_each(Tail(keys), _ndependents(Head(keys), res, deps, depd), deps, depd)

\* _ndependents(key, result, ...): the memo after the call; the value the
\* call returns is the memo's entry for key
_ndependents(key, res, deps, depd) ==
    IF key \in DOMAIN res THEN res
    ELSE LET r == ndependents_each(SeqOf(depd[key]), res, deps, depd)
         IN r @@ (key :> (SumOver(depd[key], r) + 1))

ndependents(deps, depd) ==
    LET roots  == {k \in DOMAIN depd : depd[k] = {}}
        leaves == {k \in DOMAIN deps : deps[k] = {}}
    IN ndependents_each(SeqOf(leaves), [r \in roots |-> 1], deps, depd)

RECURSIVE _child_max(_, _, _, _, _)
RECURSIVE child_max_each(_, _, _, _, _)

child_max_each(keys, scores, res, deps, depd) ==
    IF keys = <<>> THEN res
    ELSE child_max_each(Tail(keys), scores,
                        _child_max(Head(keys), scores, res, deps, depd), deps, depd)

_child_max(key, scores, res, deps, depd) ==
    IF key \in DOMAIN res THEN res
    ELSE LET r == child_max_each(SeqOf(deps[key]), scores, res, deps, depd)
         IN r @@ (key :> (MaxOver(deps[key], r) + scores[key]))

child_max(deps, depd, scores) ==
    LET leaves == {k \in DOMAIN deps : deps[k] = {}}
        roots  == {k \in DOMAIN depd : depd[k] = {}}
    IN child_max_each(SeqOf(roots), scores, [l \in leaves |-> scores[l]], deps, depd)

(***************************************************************************)
(* order.py: dfs                                                           *)
(***************************************************************************)
RECURSIVE sorted(_, _)
\* Python's sorted(seq, key=key): ascending by key, stable
sorted(seq, key) ==
    IF seq = <<>> THEN <<>>
    ELSE LET n    == Len(seq)
             x    == seq[n]
             s    == sorted(SubSeq(seq, 1, n - 1), key)
             le   == SelectSeq(s, LAMBDA e : key[e] <= key[x])
             gt   == SelectSeq(s, LAMBDA e : key[e] > key[x])
         IN le \o <<x>> \o gt

\* the state of dfs before its loop; roots is the list of the root keys in
\* the order dependents.items() yields them
dfs_start(roots, key) ==
    [stack |-> sorted(roots, key), seen |-> {}, result |-> EmptyMap, i |-> 0]

\* dfs_iter with the test "if item in seen: continue" left out
dfs_iter_noseen(st, deps_enum, key) ==
    LET n     == Len(st.stack)
        item  == st.stack[n]
        rest  == SubSeq(st.stack, 1, n - 1)
        seen1 == st.seen \cup {item}
        deps  == SelectSeq(deps_enum, LAMBDA k : k \notin seen1)
    IN [stack  |-> rest \o sorted(deps, key),
        seen   |-> seen1,
        result |-> [k \in DOMAIN st.result \cup {item} |->
                      IF k = item THEN st.i ELSE st.result[k]],
        i      |-> st.i + 1]

\* dfs_iter taking the item from the wrong end of the stack (stack.pop(0))
dfs_iter_fifo(st, deps_enum, key) ==
    LET item  == Head(st.stack)
        rest  == Tail(st.stack)
        seen1 == st.seen \cup {item}
        deps  == SelectSeq(deps_enum, LAMBDA k : k \notin seen1)
    IN IF item \in st.seen
       THEN [st EXCEPT !.stack = rest]
       ELSE [stack  |-> rest \o sorted(deps, key),
             seen   |-> seen1,
             result |-> [k \in DOMAIN st.result \cup {item} |->
                           IF k = item THEN st.i ELSE st.result[k]],
             i      |-> st.i + 1]

\* dfs_iter pushing the dependencies as enumerated, without sorting them
dfs_iter_nosort(st, deps_enum, key) ==
    LET n     == Len(st.stack)
        item  == st.stack[n]
        rest  == SubSeq(st.stack, 1, n - 1)
        seen1 == st.seen \cup {item}
        deps  == SelectSeq(deps_enum, LAMBDA k : k \notin seen1)
    IN IF item \in st.seen
       THEN [st EXCEPT !.stack = rest]
       ELSE [stack  |-> rest \o deps,
             seen   |-> seen1,
             result |-> [k \in DOMAIN st.result \cup {item} |->
                           IF k = item THEN st.i ELSE st.result[k]],
             i      |-> st.i + 1]

\* one iteration of the while loop of dfs on state st; deps_enum is the
\* order in which the set dependencies[item] is enumerated
dfs_iter(st, deps_enum, key) ==
    LET n     == Len(st.stack)
        item  == st.stack[n]
        rest  == SubSeq(st.stack, 1, n - 1)
        seen1 == st.seen \cup {item}
        deps  == SelectSeq(deps_enum, LAMBDA k : k \notin seen1)
    IN IF item \in st.seen
       THEN [st EXCEPT !.stack = rest]
       ELSE [stack  |-> rest \o sorted(deps, key),
             seen   |-> seen1,
             result |-> [k \in DOMAIN st.result \cup {item} |->
                           IF k = item THEN st.i ELSE st.result[k]],
             i      |-> st.i + 1]

RECURSIVE dfs_loop(_, _, _)
\* the loop of dfs run to its end with every set enumerated ascending
dfs_loop(st, deps, key) ==
    IF st.stack = <<>> THEN st.result
    ELSE dfs_loop(dfs_iter(st, SeqOf(deps[st.stack[Len(st.stack)]]), key), deps, key)

dfs(deps, depd, key) ==
    dfs_loop(dfs_start(SeqOf({k \in DOMAIN depd : depd[k] = {}}), key), deps, key)

order(deps) ==
    LET depd  == get_deps(deps)
        nd    == ndependents(deps, depd)
        mx    == child_max(deps, depd, nd)
    IN dfs(deps, depd, mx)

(***************************************************************************)
(* order(dsk) as a state machine: the call, the iterations of the loop of  *)
(* dfs, the return.                                                        *)
(***************************************************************************)
InitOrder ==
    /\ pc = "order"
    /\ dependencies \in Graphs
    /\ dependents = EmptyMap
    /\ ndeps = EmptyMap
    /\ maxes = EmptyMap
    /\ stack = <<>>
    /\ seen = {}
    /\ result = EmptyMap
    /\ i = 0
    /\ subtree = EmptyMap
    /\ args = <<>>
    /\ ret = <<>>

\* order: get_deps, ndependents, child_max, and dfs up to its loop
OrderCall ==
    /\ pc = "order"
    /\ LET depd == get_deps(dependencies)
           nd   == ndependents(dependencies, depd)
           mx   == child_max(dependencies, depd, nd)
       IN /\ dependents' = depd
          /\ ndeps' = nd
          /\ maxes' = mx
          /\ \E roots \in Perms({k \in DOMAIN depd : depd[k] = {}}) :
                LET st == dfs_start(roots, mx)
                IN /\ stack' = st.stack
                   /\ seen' = st.seen
                   /\ result' = st.result
                   /\ i' = st.i
    /\ pc' = "dfs"
    /\ UNCHANGED <<dependencies, subtree, multivars>>

\* one iteration of the while loop of dfs
DfsIter ==
    /\ pc = "dfs"
    /\ stack # <<>>
    /\ LET item == stack[Len(stack)]
       IN /\ \E deps_enum \in Perms(dependencies[item]) :
                LET st == dfs_iter([stack |-> stack, seen |-> seen,
                                    result |-> result, i |-> i], deps_enum, maxes)
                IN /\ stack' = st.stack
                   /\ seen' = st.seen
                   /\ result' = st.result
                   /\ i' = st.i
          /\ subtree' = subtree @@
                [k \in DOMAIN result' \ DOMAIN result |->
                    {k} \cup (TransDeps(dependencies, k) \ seen)]
    /\ UNCHANGED <<pc, dependencies, dependents, ndeps, maxes, multivars>>

\* the loop ends on an empty stack and dfs returns result
DfsReturn ==
    /\ pc = "dfs"
    /\ stack = <<>>
    /\ pc' = "done"
    /\ UNCHANGED <<ordervars, multivars>>

NextOrder == OrderCall \/ DfsIter \/ DfsReturn

SpecOrder == InitOrder /\ [][NextOrder]_vars

(***************************************************************************)
(* Properties of order                                                     *)
(***************************************************************************)
Keys == DOMAIN dependencies

\* C1: the map order returns is a toposort: a key that depends on another
\* is numbered before it (for every key v and dependency u of v,
\* result[v] < result[u]).
C1_Toposort ==
    pc = "done" =>
        \A v \in Keys : \A u \in dependencies[v] : result[v] < result[u]

\* C2: order numbers every key of the graph exactly once, and the numbers
\* are exactly 0 .. |G|-1; while dfs runs, the keys numbered so far are the
\* seen ones and carry exactly the numbers 0 .. i-1.
C2_Totality ==
    /\ pc \in {"dfs", "done"} =>
          /\ DOMAIN result = seen
          /\ seen \subseteq Keys
          /\ {result[k] : k \in seen} = 0..(i - 1)
          /\ Cardinality(seen) = i
    /\ pc = "done" =>
          /\ DOMAIN result = Keys
          /\ {result[k] : k \in Keys} = 0..(Cardinality(Keys) - 1)

\* a full graph in which some key is pushed on the stack twice was ordered
C2_Witness ==
    /\ pc = "done"
    /\ Cardinality(Keys) = MaxKeys
    /\ \E k \in Keys : Cardinality(dependents[k]) >= 2

\* no two roots, and no two dependencies of one key, have the same priority
NoTies ==
    /\ \A a, b \in Keys :
          (a # b /\ dependents[a] = {} /\ dependents[b] = {}) => maxes[a] # maxes[b]
    /\ \A k \in Keys : \A a, b \in dependencies[k] : a # b => maxes[a] # maxes[b]

\* C3 as claimed: whatever the order in which the roots and the
\* dependency sets are enumerated, a run of order returns the map of the run
\* that enumerates every set in ascending order.
C3_Deterministic ==
    pc = "done" => result = order(dependencies)

\* C3 amended: when no two roots and no two dependencies of one key have
\* equal priority, every run of order returns the same map, whatever the
\* order in which the roots and the dependency sets are enumerated.
C3_DeterministicNoTies ==
    (pc = "done" /\ NoTies) => result = order(dependencies)

\* a graph without ties whose enumeration order could matter was ordered
C3_Witness ==
    /\ pc = "done"
    /\ NoTies
    /\ Cardinality(Keys) = MaxKeys
    /\ Cardinality({k \in Keys : dependents[k] = {}}) >= 2
    /\ \E k \in Keys : Cardinality(dependencies[k]) >= 2

\* the keys numbered result[x] .. result[x] + |subtree[x]| - 1
Block(x) ==
    {k \in DOMAIN result :
        /\ result[x] <= result[k]
        /\ result[k] <= result[x] + Cardinality(subtree[x]) - 1}

\* C4: for every numbered key x, the keys numbered from result[x] on, for
\* the size of subtree[x], all belong to subtree[x] (x and its transitive
\* dependencies not numbered when x was), and once dfs has returned they
\* are exactly subtree[x].
C4_SubtreeCoherence ==
    pc \in {"dfs", "done"} =>
        \A x \in DOMAIN result :
            /\ x \in DOMAIN subtree
            /\ Block(x) \subseteq subtree[x]
            /\ pc = "done" => Block(x) = subtree[x]

\* a key was numbered, with several keys in its subtree, after some of its
\* transitive dependencies had been numbered in another subtree
C4_Witness ==
    /\ pc = "done"
    /\ \E x \in Keys :
          /\ Cardinality(subtree[x]) >= 2
          /\ ~(TransDeps(dependencies, x) \subseteq subtree[x])

\* C5: ndependents is defined for every key k and is the number of
\* distinct keys, k included, that transitively depend on k.
C5_NdependentsCountsKeys ==
    pc # "order" =>
        /\ DOMAIN ndeps = Keys
        /\ \A k \in Keys :
              ndeps[k] = Cardinality({k} \cup TransDependents(dependents, k))

(***************************************************************************)
(* multi.py: values                                                        *)
(***************************************************************************)
\* Python's None, as a block key and as an argument
None == <<>>

\* a name minted as prefix + tokenize(args): tokenize is deterministic and
\* injective, so the token is the tuple of what was tokenized
Name(prefix, token) == [prefix |-> prefix, token |-> token]

\* a dd.DataFrame / dd.Series with known divisions
Frame(name, divisions, columns) ==
    [kind |-> "_Frame", name |-> name, divisions |-> divisions, columns |-> columns]

\* a dd.base.Scalar: no divisions
Scalar(name) == [kind |-> "Scalar", name |-> name, divisions |-> <<>>, columns |-> <<>>]

isinstance_Frame(df) == df.kind = "_Frame"

\* seq[a:b] of Python for 0 <= a, b
Slice(seq, a, b) == SubSeq(seq, a + 1, IF b < Len(seq) THEN b ELSE Len(seq))

Min(S) == CHOOSE x \in S : \A y \in S : x <= y

Max(S) == CHOOSE x \in S : \A y \in S : x >= y

\* the strictly increasing sequences of at least two values of 1..MaxDiv
DivisionsSet == {SeqOf(S) : S \in {T \in SUBSET (1..MaxDiv) : Cardinality(T) >= 2}}

\* the t-th argument table of a call
Table(t, divisions) == Frame(Name("table-", <<t>>), divisions, <<"id">>)

\* the argument lists of align_partitions: tables and scalars
ArgLists ==
    UNION {[1..n -> {"_Frame", "Scalar"} \X DivisionsSet] : n \in 0..MaxTables}

ArgsOf(l) ==
    [t \in 1..Len(l) |->
        IF l[t][1] = "_Frame" THEN Table(t, l[t][2]) ELSE Scalar(Name("scalar-", <<t>>))]

(***************************************************************************)
(* multi.py: align_partitions                                              *)
(***************************************************************************)
RECURSIVE merge2(_, _)
merge2(a, b) ==
    IF a = <<>> THEN b
    ELSE IF b = <<>> THEN a
    ELSE IF Head(a) <= Head(b) THEN <<Head(a)>> \o merge2(Tail(a), b)
    ELSE <<Head(b)>> \o merge2(a, Tail(b))

RECURSIVE merge_sorted(_)
\* toolz.merge_sorted(*seqs): one sorted sequence out of sorted sequences
merge_sorted(seqs) ==
    IF seqs = <<>> THEN <<>> ELSE merge2(Head(seqs), merge_sorted(Tail(seqs)))

RECURSIVE unique(_)
\* toolz.unique(seq): the first occurrence of every element, in order
unique(seq) ==
    IF seq = <<>> THEN <<>>
    ELSE LET n == Len(seq)
             u == unique(SubSeq(seq, 1, n - 1))
         IN IF seq[n] \in Range(u) THEN u ELSE Append(u, seq[n])

\* df.repartition(divisions, force=True): a new frame on the given divisions
repartition(df, divisions) ==
    Frame(Name("repartition-", <<df.name, divisions>>), divisions, df.columns)

RECURSIVE align_rows(_, _, _)
\* the loop "for d in divisions[:-1]" of align_partitions: ds are the
\* divisions left, inds the walking index of every input
align_rows(dfs2, ds, inds) ==
    IF ds = <<>> THEN <<>>
    ELSE LET d == Head(ds)
             hit(t) == /\ isinstance_Frame(dfs2[t])
                       /\ inds[t] < Len(dfs2[t].divisions) - 1
                       /\ dfs2[t].divisions[inds[t] + 1] = d
             L == [t \in 1..Len(dfs2) |->
                     IF hit(t) THEN <<dfs2[t].name, inds[t]>> ELSE None]
             inds2 == [t \in 1..Len(dfs2) |-> IF hit(t) THEN inds[t] + 1 ELSE inds[t]]
         IN <<L>> \o align_rows(dfs2, Tail(ds), inds2)

\* align_partitions walking the inputs as given instead of the
\* repartitioned ones
align_partitions_dfs(dfs0) ==
    LET dfs1 == SelectSeq(dfs0, isinstance_Frame)
    IN IF Len(dfs0) = 0
       THEN [raised |-> "ValueError", dfs |-> <<>>, divisions |-> <<>>, parts |-> <<>>]
       ELSE LET divisions == unique(merge_sorted([t \in 1..Len(dfs1) |-> dfs1[t].divisions]))
                dfs2 == [t \in 1..Len(dfs0) |->
                           IF isinstance_Frame(dfs0[t]) THEN repartition(dfs0[t], divisions)
                           ELSE dfs0[t]]
                inds == [t \in 1..Len(dfs0) |-> 0]
            IN [raised |-> "", dfs |-> dfs2, divisions |-> divisions,
                parts |-> align_rows(dfs0, Slice(divisions, 0, Len(divisions) - 1), inds)]

\* align_partitions(*dfs): raised is the exception raised ("" for none),
\* and (dfs, divisions, parts) the triple returned
align_partitions(dfs0) ==
    LET dfs1 == SelectSeq(dfs0, isinstance_Frame)
    IN IF Len(dfs0) = 0
       THEN [raised |-> "ValueError", dfs |-> <<>>, divisions |-> <<>>, parts |-> <<>>]
       ELSE LET divisions == unique(merge_sorted([t \in 1..Len(dfs1) |-> dfs1[t].divisions]))
                dfs2 == [t \in 1..Len(dfs0) |->
                           IF isinstance_Frame(dfs0[t]) THEN repartition(dfs0[t], divisions)
                           ELSE dfs0[t]]
                inds == [t \in 1..Len(dfs0) |-> 0]
            IN [raised |-> "", dfs |-> dfs2, divisions |-> divisions,
                parts |-> align_rows(dfs2, Slice(divisions, 0, Len(divisions) - 1), inds)]

(***************************************************************************)
(* a call of align_partitions                                              *)
(***************************************************************************)
InitAlign ==
    /\ pc = "align_partitions"
    /\ args \in {[dfs |-> ArgsOf(l)] : l \in ArgLists}
    /\ ret = <<>>
    /\ dependencies = EmptyMap
    /\ dependents = EmptyMap
    /\ ndeps = EmptyMap
    /\ maxes = EmptyMap
    /\ stack = <<>>
    /\ seen = {}
    /\ result = EmptyMap
    /\ i = 0
    /\ subtree = EmptyMap

AlignReturn ==
    /\ pc = "align_partitions"
    /\ align_partitions(args.dfs).raised = ""
    /\ ret' = align_partitions(args.dfs)
    /\ pc' = "returned"
    /\ UNCHANGED <<args, ordervars>>

AlignRaise ==
    /\ pc = "align_partitions"
    /\ align_partitions(args.dfs).raised # ""
    /\ ret' = align_partitions(args.dfs)
    /\ pc' = "raised"
    /\ UNCHANGED <<args, ordervars>>

NextAlign == AlignReturn \/ AlignRaise

SpecAlign == InitAlign /\ [][NextAlign]_vars

(***************************************************************************)
(* Properties of align_partitions                                          *)
(***************************************************************************)
HasFrame(dfs0) == \E t \in DOMAIN dfs0 : isinstance_Frame(dfs0[t])

\* C6: when align_partitions is called with at least one table, the parts
\* it returns have one row per interval of the merged divisions, and every
\* row has at least one block key that is not None.
C6_Coverage ==
    (pc = "returned" /\ HasFrame(args.dfs)) =>
        /\ Len(ret.parts) = Len(ret.divisions) - 1
        /\ \A r \in DOMAIN ret.parts :
              /\ Len(ret.parts[r]) = Len(args.dfs)
              /\ \E t \in DOMAIN ret.parts[r] : ret.parts[r][t] # None

\* two tables whose divisions leave a gap between them were aligned
C6_Witness ==
    /\ pc = "returned"
    /\ Len(args.dfs) >= 2
    /\ \E a, b \in DOMAIN args.dfs :
          /\ isinstance_Frame(args.dfs[a])
          /\ isinstance_Frame(args.dfs[b])
          /\ args.dfs[a].divisions[Len(args.dfs[a].divisions)] < args.dfs[b].divisions[1]
    /\ Len(ret.parts) >= 3

\* C10: align_partitions called with no table among its arguments (no
\* argument at all, or only scalars) raises and returns nothing.
C10_NoTablesRaises ==
    (pc \in {"returned", "raised"} /\ ~HasFrame(args.dfs)) =>
        /\ pc = "raised"
        /\ ret.raised = "ValueError"

(***************************************************************************)
(* multi.py: require                                                       *)
(***************************************************************************)
Raised(exc, divisions, parts) == [raised |-> exc, divisions |-> divisions, parts |-> parts]

RECURSIVE require_for_short(_, _, _)
\* require_for cutting divisions one short (max(present) + 1)
require_for_short(divisions, parts, required) ==
    IF required = <<>> THEN Raised("", divisions, parts)
    ELSE LET k == Head(required)
             present == {j \in 0..(Len(parts) - 1) : parts[j + 1][k + 1] # None}
         IN IF present = {} THEN Raised("ValueError", <<>>, <<>>)
            ELSE require_for_short(Slice(divisions, Min(present), Max(present) + 1),
                                   Slice(parts, Min(present), Max(present) + 1),
                                   Tail(required))

RECURSIVE require_for(_, _, _)
\* the loop "for i in required" of require; min() and max() of an empty
\* list raise ValueError
require_for(divisions, parts, required) ==
    IF required = <<>> THEN Raised("", divisions, parts)
    ELSE LET k == Head(required)
             present == {j \in 0..(Len(parts) - 1) : parts[j + 1][k + 1] # None}
         IN IF present = {} THEN Raised("ValueError", <<>>, <<>>)
            ELSE require_for(Slice(divisions, Min(present), Max(present) + 2),
                             Slice(parts, Min(present), Max(present) + 1),
                             Tail(required))

\* require(divisions, parts, required)
require(divisions, parts, required) ==
    IF required = <<>> THEN Raised("", divisions, parts)
    ELSE require_for(divisions, parts, required)

\* required = {'left': [0], 'right': [1], 'inner': [0, 1], 'outer': []}
required_of(how) ==
    CASE how = "left" -> <<0>>
      [] how = "right" -> <<1>>
      [] how = "inner" -> <<0, 1>>
      [] how = "outer" -> <<>>

(***************************************************************************)
(* a call of require on the parts of two tables                            *)
(***************************************************************************)
\* parts of n >= 1 rows for two tables, any block present or None
PartsOf(present) ==
    [j \in 1..Len(present) |->
        [t \in 1..2 |-> IF present[j][t] THEN <<Name("table-", <<t>>), j - 1>> ELSE None]]

PartsSet ==
    {PartsOf(p) : p \in UNION {[1..n -> [1..2 -> BOOLEAN]] : n \in 1..MaxParts}}

Masks == {<<>>, <<0>>, <<1>>, <<0, 1>>, <<1, 0>>}

InitRequire ==
    /\ pc = "require"
    /\ args \in {[divisions |-> [d \in 1..(Len(p) + 1) |-> d], parts |-> p, required |-> m] :
                    p \in PartsSet, m \in Masks}
    /\ ret = <<>>
    /\ dependencies = EmptyMap
    /\ dependents = EmptyMap
    /\ ndeps = EmptyMap
    /\ maxes = EmptyMap
    /\ stack = <<>>
    /\ seen = {}
    /\ result = EmptyMap
    /\ i = 0
    /\ subtree = EmptyMap

RequireReturn ==
    /\ pc = "require"
    /\ require(args.divisions, args.parts, args.required).raised = ""
    /\ ret' = require(args.divisions, args.parts, args.required)
    /\ pc' = "returned"
    /\ UNCHANGED <<args, ordervars>>

RequireRaise ==
    /\ pc = "require"
    /\ require(args.divisions, args.parts, args.required).raised # ""
    /\ ret' = require(args.divisions, args.parts, args.required)
    /\ pc' = "raised"
    /\ UNCHANGED <<args, ordervars>>

NextRequire == RequireReturn \/ RequireRaise

SpecRequire == InitRequire /\ [][NextRequire]_vars

(***************************************************************************)
(* Properties of require                                                   *)
(***************************************************************************)
\* the rows of the parts given to require where table k has a block
Present(k) == {j \in 0..(Len(args.parts) - 1) : args.parts[j + 1][k + 1] # None}

\* the range from the lowest to the highest row where table k has a block
Span(k) == IF Present(k) = {} THEN {} ELSE Min(Present(k))..Max(Present(k))

\* the intersection of the spans of the tables of the mask
Inter == {j \in 0..(Len(args.parts) - 1) : \A n \in DOMAIN args.required : j \in Span(args.required[n])}

NoHoles == \A n \in DOMAIN args.required : Present(args.required[n]) = Span(args.required[n])

C11_RequireClearsAbsent ==
    (pc = "returned") =>
        \A r \in DOMAIN ret.parts : \A n \in DOMAIN args.required :
            ret.parts[r][args.required[n] + 1] # None

(***************************************************************************)
(* multi.py: join_indexed_dataframes, hash_join, concat_indexed_dataframes *)
(***************************************************************************)
\* a key argument (on, left_on, right_on): None, False, a column name,
\* a list of column names, or an Index object
KeyNone == [tag |-> "None", cols |-> <<>>]

KeyFalse == [tag |-> "False", cols |-> <<>>]

KeyIndex == [tag |-> "Index", cols |-> <<>>]

KeyStr(c) == [tag |-> "str", cols |-> <<c>>]

KeyList(cs) == [tag |-> "list", cols |-> cs]

\* Python's truth value of a key argument
Truthy(k) == k.tag = "Index" \/ (k.tag \in {"str", "list"} /\ k.cols # <<>>)

\* what a planner call gives: the exception raised ("" for none) or the
\* table returned, as its name, its divisions and its graph fragment
Planned(exc, name, divisions, dsk) ==
    [raised |-> exc, name |-> name, divisions |-> divisions, dsk |-> dsk]

\* the number of keys a key argument stands for in pd.merge
key_len(k) == IF k.tag = "list" THEN Len(k.cols) ELSE 1

\* the columns of both frames that pd.merge keeps apart: all the shared
\* ones but a key of the same name on both sides, which it merges into one
overlap(left_columns, right_columns, left_on, right_on) ==
    {c \in Range(left_columns) \cap Range(right_columns) :
        ~\E n \in DOMAIN left_on.cols :
            n \in DOMAIN right_on.cols /\ left_on.cols[n] = c /\ right_on.cols[n] = c}

\* pd.merge(left, right, how, on, left_on=..., right_on=...,
\* left_index=..., right_index=..., suffixes=...) as far as the columns of
\* the two frames decide it: the exception pandas raises, "" for none. It
\* validates the key arguments, then looks the keys up in the columns, then
\* renames the columns the two frames share.
pd_merge(left_columns, right_columns, on, left_on, right_on, left_index, right_index, suffixes) ==
    LET common == KeyList(SelectSeq(left_columns, LAMBDA c : c \in Range(right_columns)))
        no_on == on.tag = "None"
        no_left == left_on.tag = "None"
        no_right == right_on.tag = "None"
        no_key == no_on /\ no_left /\ no_right
        \* the keys each side is joined on, KeyNone for its index
        lk == IF no_key THEN (IF left_index /\ right_index THEN KeyNone ELSE common)
              ELSE IF ~no_on THEN on
              ELSE left_on
        rk == IF no_key THEN (IF left_index /\ right_index THEN KeyNone ELSE common)
              ELSE IF ~no_on THEN on
              ELSE IF ~no_left /\ right_index THEN KeyNone
              ELSE right_on
        absent(k, columns) ==
            k.tag = "False" \/ \E n \in DOMAIN k.cols : k.cols[n] \notin Range(columns)
    IN IF no_key /\ (left_index # right_index \/ (~left_index /\ common.cols = <<>>))
       THEN "MergeError"
       ELSE IF ~no_on /\ (~no_left \/ ~no_right)
       THEN "MergeError"
       ELSE IF no_on /\ ~no_left /\ no_right /\ ~right_index
       THEN "MergeError"
       ELSE IF no_on /\ no_left /\ ~no_right /\ ~left_index
       THEN "MergeError"
       ELSE IF no_on /\ ~no_left /\ right_index /\ key_len(left_on) # 1
       THEN "ValueError"
       ELSE IF no_on /\ no_left /\ ~no_right /\ key_len(right_on) # 1
       THEN "ValueError"
       ELSE IF no_on /\ ~no_left /\ ~right_index /\ key_len(left_on) # key_len(right_on)
       THEN "ValueError"
       ELSE IF absent(rk, right_columns) \/ absent(lk, left_columns)
       THEN "KeyError"
       ELSE IF overlap(left_columns, right_columns, lk, rk) # {}
               /\ suffixes[1] = "" /\ suffixes[2] = ""
       THEN "ValueError"
       ELSE ""

\* left_empty.join(right_empty, None, how, lsuffix, rsuffix): a merge on
\* the index of both frames
DataFrame_join(left_columns, right_columns, how, lsuffix, rsuffix) ==
    pd_merge(left_columns, right_columns, KeyNone, KeyNone, KeyNone, TRUE, TRUE,
             <<lsuffix, rsuffix>>)

\* the task of block (a, b) of join_indexed_dataframes
join_task(a, b, how, lsuffix, rsuffix) ==
    IF a # None /\ b # None
    THEN <<"pd.DataFrame.join", a, b, how, lsuffix, rsuffix>>
    ELSE IF a # None /\ how \in {"left", "outer"}
    THEN <<"pd.DataFrame.join", a, <<"right_empty">>, how, lsuffix, rsuffix>>
    ELSE IF b # None /\ how \in {"right", "outer"}
    THEN <<"pd.DataFrame.join", <<"left_empty">>, b, how, lsuffix, rsuffix>>
    ELSE None

join_indexed_dataframes(lhs, rhs, how, lsuffix, rsuffix) ==
    LET al == align_partitions(<<lhs, rhs>>)
        rq == require(al.divisions, al.parts, required_of(how))
    IN IF al.raised # "" THEN Planned(al.raised, None, <<>>, <<>>)
       ELSE IF rq.raised # "" THEN Planned(rq.raised, None, <<>>, <<>>)
       ELSE LET name == Name("join-indexed-",
                             <<al.dfs[1].name, al.dfs[2].name, how, lsuffix, rsuffix>>)
                \* line 215: the join of the two empty frames
                j == DataFrame_join(al.dfs[1].columns, al.dfs[2].columns,
                                    how, lsuffix, rsuffix)
            IN IF j # "" THEN Planned(j, None, <<>>, <<>>)
               ELSE
               Planned("", name, rq.divisions,
                       [n \in 1..Len(rq.parts) |->
                          [key  |-> <<name, n - 1>>,
                           task |-> join_task(rq.parts[n][1], rq.parts[n][2],
                                              how, lsuffix, rsuffix)]])

\* df.npartitions
npartitions_of(df) == Len(df.divisions) - 1

\* shuffle(df, key, npartitions): npartitions blocks, divisions all None
shuffle(df, key, npartitions) ==
    Frame(Name("shuffle-", <<df.name, key, npartitions>>),
          [d \in 1..(npartitions + 1) |-> None], df.columns)

\* hash_join; npartitions is None or <<n>>
hash_join(lhs, left_on, rhs, right_on, how, npartitions, suffixes) ==
    LET np == IF npartitions = None
              THEN (IF npartitions_of(lhs) >= npartitions_of(rhs)
                    THEN npartitions_of(lhs) ELSE npartitions_of(rhs))
              ELSE npartitions[1]
        lhs2 == shuffle(lhs, left_on, np)
        rhs2 == shuffle(rhs, right_on, np)
        left_index  == left_on.tag = "Index"
        right_index == right_on.tag = "Index"
        left_on1  == IF left_index THEN KeyNone ELSE left_on
        right_on1 == IF right_index THEN KeyNone ELSE right_on
        \* line 267: the merge of the two empty frames
        j == pd_merge(lhs.columns, rhs.columns, KeyNone, left_on1, right_on1,
                      left_index, right_index, suffixes)
        \* a list becomes the task (list, tuple(left_on))
        left_on2  == IF left_on1.tag = "list" THEN [left_on1 EXCEPT !.tag = "(list, tuple)"]
                     ELSE left_on1
        right_on2 == IF right_on1.tag = "list" THEN [right_on1 EXCEPT !.tag = "(list, tuple)"]
                     ELSE right_on1
        name == Name("hash-join-", <<lhs.name, left_on2, rhs.name, right_on2,
                                     left_index, right_index, how, np, suffixes>>)
    IN IF j # "" THEN Planned(j, None, <<>>, <<>>)
       ELSE
       Planned("", name, [d \in 1..(np + 1) |-> None],
               [n \in 1..np |->
                  [key  |-> <<name, n - 1>>,
                   task |-> <<"pdmerge", <<lhs2.name, n - 1>>, <<rhs2.name, n - 1>>, how,
                              left_on2, right_on2, left_index, right_index>>]])

concat_indexed_dataframes(dfs0, axis, join) ==
    IF join \notin {"inner", "outer"} THEN Planned("ValueError", None, <<>>, <<>>)
    ELSE IF \E t \in DOMAIN dfs0 : ~isinstance_Frame(dfs0[t])
    THEN Planned("ValueError", None, <<>>, <<>>)
    ELSE LET al == align_partitions(dfs0)
         IN IF al.raised # "" THEN Planned(al.raised, None, <<>>, <<>>)
            ELSE LET parts2 == [n \in 1..Len(al.parts) |->
                                  [t \in 1..Len(dfs0) |->
                                     IF al.parts[n][t] # None THEN al.parts[n][t]
                                     ELSE <<"_empty_partition", dfs0[t].name>>]]
                     name == Name("concat-indexed-",
                                  <<join>> \o [t \in 1..Len(dfs0) |-> dfs0[t].name])
                 IN Planned("", name, al.divisions,
                            [n \in 1..Len(al.parts) |->
                               [key  |-> <<name, n - 1>>,
                                task |-> <<"_pdconcat", parts2[n], axis, join>>]])

(***************************************************************************)
(* Two planner calls, one after the other, on two tables: args holds the   *)
(* calls made and ret what each gave.                                      *)
(***************************************************************************)
TableA == Frame(Name("table-", <<1>>), <<1, 2, 3>>, <<"id", "x">>)

TableB == Frame(Name("table-", <<2>>), <<2, 4>>, <<"id", "y">>)

Hows == {"left", "right", "inner", "outer"}

\* the logical inputs of a call, in one shape for the three functions
Call(fn, tables, keys, how, axis, suffixes, np) ==
    [fn |-> fn, tables |-> tables, keys |-> keys, how |-> how, axis |-> axis,
     suffixes |-> suffixes, npartitions |-> np]

InitNames ==
    /\ pc = "plan"
    /\ args = <<>>
    /\ ret = <<>>
    /\ dependencies = EmptyMap
    /\ dependents = EmptyMap
    /\ ndeps = EmptyMap
    /\ maxes = EmptyMap
    /\ stack = <<>>
    /\ seen = {}
    /\ result = EmptyMap
    /\ i = 0
    /\ subtree = EmptyMap

JoinIndexedCall ==
    /\ pc = "plan"
    /\ Len(args) < 2
    /\ \E lhs, rhs \in {TableA, TableB}, how \in Hows,
          lsuffix \in {"", "_l"}, rsuffix \in {"", "_r"} :
          /\ args' = Append(args, Call("join_indexed_dataframes", <<lhs.name, rhs.name>>,
                                       <<KeyIndex, KeyIndex>>, how, 0,
                                       <<lsuffix, rsuffix>>, 0))
          /\ ret' = Append(ret, join_indexed_dataframes(lhs, rhs, how, lsuffix, rsuffix))
    /\ UNCHANGED <<pc, ordervars>>

HashJoinCall ==
    /\ pc = "plan"
    /\ Len(args) < 2
    /\ \E lhs, rhs \in {TableA, TableB}, how \in {"inner", "left"},
          left_on, right_on \in {KeyStr("id"), KeyList(<<"id">>), KeyIndex},
          np \in {None, <<1>>, <<2>>}, suffixes \in {<<"_x", "_y">>} :
          LET planned == hash_join(lhs, left_on, rhs, right_on, how, np, suffixes)
          IN /\ args' = Append(args, Call("hash_join", <<lhs.name, rhs.name>>,
                                          <<left_on, right_on>>, how, 0, suffixes,
                                          Len(planned.dsk)))
             /\ ret' = Append(ret, planned)
    /\ UNCHANGED <<pc, ordervars>>

ConcatIndexedCall ==
    /\ pc = "plan"
    /\ Len(args) < 2
    /\ \E dfs0 \in {<<TableA>>, <<TableA, TableB>>, <<TableB, TableA>>},
          axis \in {0, 1}, join \in {"inner", "outer", "left"} :
          /\ args' = Append(args, Call("concat_indexed_dataframes",
                                       [t \in 1..Len(dfs0) |-> dfs0[t].name],
                                       <<>>, join, axis, <<>>, 0))
          /\ ret' = Append(ret, concat_indexed_dataframes(dfs0, axis, join))
    /\ UNCHANGED <<pc, ordervars>>

NextNames == JoinIndexedCall \/ HashJoinCall \/ ConcatIndexedCall

SpecNames == InitNames /\ [][NextNames]_vars

(***************************************************************************)
(* Properties of the names                                                 *)
(***************************************************************************)
SameName(a, b) == a.prefix = b.prefix /\ a.token = b.token

\* C8: of any two planner calls that returned a table, those with the
\* same logical inputs (function, source tables, keys, how/join, axis,
\* suffixes, npartitions) minted the same name, and those that differ in a
\* logical input minted different names.
C8_NamesCollisionFree ==
    \A m, n \in DOMAIN args :
        (ret[m].raised = "" /\ ret[n].raised = "") =>
            (SameName(ret[m].name, ret[n].name) <=> args[m] = args[n])

(***************************************************************************)
(* multi.py: merge                                                         *)
(***************************************************************************)
\* an in-memory pandas object: divisions holds the values of its index in
\* row order, data the values of each column in row order
Pandas(name, divisions, columns, data) ==
    [kind |-> "pandas", name |-> name, divisions |-> divisions, columns |-> columns,
     data |-> data]

isinstance_NDFrame(df) == df.kind = "pandas"

\* from_pandas(df, npartitions=1): the rows sorted by index in one block
\* from the lowest to the highest index value
from_pandas(df) ==
    Frame(Name("from_pandas-", <<df.name>>),
          <<Min(Range(df.divisions)), Max(Range(df.divisions))>>, df.columns)

\* df.set_index(df[key]) of pandas. df[key] raises KeyError when a column
\* of key is absent; df[[c, ...]] is a DataFrame, which set_index rejects
\* (it is not a column key nor a one-dimensional array); df[c] is a Series
\* and becomes the index, the columns staying as they are.
set_index(df, key) ==
    IF \E n \in DOMAIN key.cols : key.cols[n] \notin Range(df.columns)
    THEN [raised |-> "KeyError", df |-> None]
    ELSE IF key.tag = "list"
    THEN [raised |-> "ValueError", df |-> None]
    ELSE [raised |-> "",
          df |-> [df EXCEPT !.name = Name("set_index-", <<df.name, key>>),
                            !.divisions = df.data[key.cols[1]]]]

\* lines 364-367: no key argument given
merge_infer(m) ==
    IF ~Truthy(m.on) /\ ~Truthy(m.left_on) /\ ~Truthy(m.right_on)
       /\ ~m.left_index /\ ~m.right_index
    THEN LET on == KeyList(SelectSeq(m.left.columns,
                                     LAMBDA c : c \in Range(m.right.columns)))
         IN IF ~Truthy(on)
            THEN [m EXCEPT !.on = on, !.left_index = TRUE, !.right_index = TRUE]
            ELSE [m EXCEPT !.on = on]
    ELSE m

\* merge_on forgetting to clear on
merge_on_keep(m) ==
    IF Truthy(m.on) /\ ~Truthy(m.left_on) /\ ~Truthy(m.right_on)
    THEN [m EXCEPT !.left_on = m.on, !.right_on = m.on]
    ELSE m

\* lines 369-371: on given
merge_on(m) ==
    IF Truthy(m.on) /\ ~Truthy(m.left_on) /\ ~Truthy(m.right_on)
    THEN [m EXCEPT !.left_on = m.on, !.right_on = m.on, !.on = KeyNone]
    ELSE m

\* lines 380-385: a pandas left operand becomes a dask dataframe; raised
\* names the exception of set_index, after which nothing was assigned
merge_left(m) ==
    IF isinstance_NDFrame(m.left)
    THEN IF m.right_index /\ Truthy(m.left_on)
         THEN LET si == set_index(m.left, m.left_on)
              IN IF si.raised # "" THEN [raised |-> si.raised] @@ m
                 ELSE [raised |-> ""] @@
                      [m EXCEPT !.left = from_pandas(si.df),
                                !.left_on = KeyFalse, !.left_index = TRUE]
         ELSE [raised |-> ""] @@ [m EXCEPT !.left = from_pandas(m.left)]
    ELSE [raised |-> ""] @@ m

\* lines 387-392: a pandas right operand becomes a dask dataframe; raised
\* names the exception of set_index, after which nothing was assigned
merge_right(m) ==
    IF isinstance_NDFrame(m.right)
    THEN IF m.left_index /\ Truthy(m.right_on)
         THEN LET si == set_index(m.right, m.right_on)
              IN IF si.raised # "" THEN [raised |-> si.raised] @@ m
                 ELSE [raised |-> ""] @@
                      [m EXCEPT !.right = from_pandas(si.df),
                                !.right_on = KeyFalse, !.right_index = TRUE]
         ELSE [raised |-> ""] @@ [m EXCEPT !.right = from_pandas(m.right)]
    ELSE [raised |-> ""] @@ m

\* the join merge hands over to, with the key arguments it passes: on,
\* left_on, right_on, left_index, right_index as they stand at the call,
\* left_key and right_key the key each side is joined on, out what the
\* join gave
Dispatched(target, m, left_key, right_key, out) ==
    [target |-> target, on |-> m.on, left_on |-> m.left_on, right_on |-> m.right_on,
     left_index |-> m.left_index, right_index |-> m.right_index,
     left_key |-> left_key, right_key |-> right_key,
     raised |-> out.raised, out |-> out]

merge(left, right, how, on, left_on, right_on, left_index, right_index, suffixes, npartitions) ==
    LET m0 == [left |-> left, right |-> right, on |-> on, left_on |-> left_on,
               right_on |-> right_on, left_index |-> left_index,
               right_index |-> right_index]
        m2 == merge_on(merge_infer(m0))
        m3 == merge_left(m2)
        m4 == IF m3.raised # "" THEN m3 ELSE merge_right(m3)
    IN IF isinstance_NDFrame(left) /\ isinstance_NDFrame(right)
       THEN Dispatched("pd.merge", m2, m2.left_on, m2.right_on,
                       Planned(pd_merge(left.columns, right.columns, m2.on, m2.left_on,
                                        m2.right_on, m2.left_index, m2.right_index,
                                        suffixes),
                               None, <<>>, <<>>))
       ELSE IF m4.raised # ""
       THEN Dispatched("", m4, KeyNone, KeyNone, Planned(m4.raised, None, <<>>, <<>>))
       ELSE IF m4.left_index /\ m4.right_index
       THEN Dispatched("join_indexed_dataframes", m4, KeyIndex, KeyIndex,
                       join_indexed_dataframes(m4.left, m4.right, how,
                                               suffixes[1], suffixes[2]))
       ELSE LET lkey == IF m4.left_index THEN KeyIndex ELSE m4.left_on
                rkey == IF m4.right_index THEN KeyIndex ELSE m4.right_on
            IN Dispatched("hash_join", m4, lkey, rkey,
                          hash_join(m4.left, lkey, m4.right, rkey, how,
                                    npartitions, suffixes))

(***************************************************************************)
(* a call of merge                                                         *)
(***************************************************************************)
Operand(kind, t, divisions, columns, data) ==
    IF kind = "pandas" THEN Pandas(Name("table-", <<t>>), divisions, columns, data)
    ELSE Frame(Name("table-", <<t>>), divisions, columns)

\* the left operand: index 1, 2, 3 and columns id and x, in memory with
\* key columns equal to the index or not, or a dask dataframe
LeftOperands ==
    {Operand("pandas", 1, <<1, 2, 3>>, <<"id", "x">>, d) :
        d \in {[id |-> <<1, 2, 3>>, x |-> <<1, 2, 3>>],
               [id |-> <<3, 4, 2>>, x |-> <<4, 2, 3>>]}}
    \cup {Operand("dask", 1, <<1, 2, 3>>, <<"id", "x">>, None)}

\* the right operand: index 2, 4 and columns id and y, or the one column z
RightOperands ==
    {Operand("pandas", 2, <<2, 4>>, <<"id", "y">>, d) :
        d \in {[id |-> <<2, 4>>, y |-> <<2, 4>>],
               [id |-> <<1, 3>>, y |-> <<4, 1>>]}}
    \cup {Operand("pandas", 2, <<2, 4>>, <<"z">>, [z |-> <<3, 1>>])}
    \cup {Operand("dask", 2, <<2, 4>>, c, None) : c \in {<<"id", "y">>, <<"z">>}}

MergeArgs ==
    [left : LeftOperands,
     right : RightOperands,
     how : Hows,
     on : {KeyNone, KeyStr("id"), KeyList(<<"id">>)},
     left_on : {KeyNone, KeyStr("x")},
     right_on : {KeyNone, KeyStr("y")},
     left_index : BOOLEAN,
     right_index : BOOLEAN]

InitMerge ==
    /\ pc = "merge"
    /\ args \in MergeArgs
    /\ ret = <<>>
    /\ dependencies = EmptyMap
    /\ dependents = EmptyMap
    /\ ndeps = EmptyMap
    /\ maxes = EmptyMap
    /\ stack = <<>>
    /\ seen = {}
    /\ result = EmptyMap
    /\ i = 0
    /\ subtree = EmptyMap

MergeCall ==
    /\ pc = "merge"
    /\ ret' = merge(args.left, args.right, args.how, args.on, args.left_on,
                    args.right_on, args.left_index, args.right_index,
                    <<"_x", "_y">>, None)
    /\ pc' = IF ret'.raised = "" THEN "returned" ELSE "raised"
    /\ UNCHANGED <<args, ordervars>>

NextMerge == MergeCall

SpecMerge == InitMerge /\ [][NextMerge]_vars

(***************************************************************************)
(* Properties of merge                                                     *)
(***************************************************************************)
\* C9 as claimed: whenever merge is called with on set, whatever the
\* other key arguments, the join it dispatches gets no on (it was cleared)
\* and on as left_on and right_on, the key of both sides.
C9_OnPropagated ==
    (pc = "returned" /\ Truthy(args.on)) =>
        /\ ret.on = KeyNone
        /\ ret.left_on = args.on
        /\ ret.right_on = args.on
        /\ ret.left_key = args.on
        /\ ret.right_key = args.on

\* C9 amended: whenever merge is called with on set and neither left_on
\* nor right_on, on is cleared and each side of the join merge dispatches is
\* keyed by on unless that side is joined on its index; with neither
\* left_index nor right_index set, pd.merge or hash_join gets on as left_on
\* and right_on, the key of both sides.
C9_OnPropagatedAlone ==
    (pc = "returned" /\ Truthy(args.on)
       /\ ~Truthy(args.left_on) /\ ~Truthy(args.right_on)) =>
        /\ ret.on = KeyNone
        /\ ret.left_key = args.on \/ ret.left_index
        /\ ret.right_key = args.on \/ ret.right_index
        /\ (~args.left_index /\ ~args.right_index) =>
              /\ ret.target \in {"pd.merge", "hash_join"}
              /\ ret.left_on = args.on
              /\ ret.right_on = args.on
              /\ ret.left_key = args.on
              /\ ret.right_key = args.on

\* merge was called on two dask dataframes with on alone and went to
\* hash_join
C9_Witness ==
    /\ pc = "returned"
    /\ Truthy(args.on)
    /\ ~Truthy(args.left_on)
    /\ ~Truthy(args.right_on)
    /\ ~args.left_index
    /\ ~args.right_index
    /\ ret.target = "hash_join"
    /\ ret.right_key = args.on

(***************************************************************************)
(* a call of join_indexed_dataframes on two tables with known divisions    *)
(***************************************************************************)
InitJoin ==
    /\ pc = "join_indexed_dataframes"
    /\ args \in [lhs : {Table(1, dl) : dl \in DivisionsSet},
                  rhs : {Frame(Name("table-", <<2>>), dr, c) :
                            dr \in DivisionsSet, c \in {<<"id">>, <<"y">>}},
                  how : Hows,
                  lsuffix : {"", "_l"},
                  rsuffix : {"", "_r"}]
    /\ ret = <<>>
    /\ dependencies = EmptyMap
    /\ dependents = EmptyMap
    /\ ndeps = EmptyMap
    /\ maxes = EmptyMap
    /\ stack = <<>>
    /\ seen = {}
    /\ result = EmptyMap
    /\ i = 0
    /\ subtree = EmptyMap

JoinCall ==
    /\ pc = "join_indexed_dataframes"
    /\ ret' = join_indexed_dataframes(args.lhs, args.rhs, args.how,
                                      args.lsuffix, args.rsuffix)
    /\ pc' = IF ret'.raised = "" THEN "returned" ELSE "raised"
    /\ UNCHANGED <<args, ordervars>>

NextJoin == JoinCall

SpecJoin == InitJoin /\ [][NextJoin]_vars

(***************************************************************************)
(* Properties of join_indexed_dataframes                                   *)
(***************************************************************************)
\* C12: for every pair of tables with known divisions and every how, the
\* graph fragment join_indexed_dataframes builds has one key (name, i) for
\* each interval i of the divisions of the returned table, each mapped to a
\* pd.DataFrame.join task and none to None; the only call that returns no
\* table is the one pandas rejects, the two tables sharing a column with no
\* suffix given.
C12_NoNullBlock ==
    /\ (pc = "raised") =>
          /\ ret.raised = "ValueError"
          /\ Range(args.lhs.columns) \cap Range(args.rhs.columns) # {}
          /\ args.lsuffix = ""
          /\ args.rsuffix = ""
    /\ (pc = "returned") =>
          /\ Len(ret.divisions) >= 2
          /\ Len(ret.dsk) = Len(ret.divisions) - 1
          /\ \A n \in DOMAIN ret.dsk :
                /\ ret.dsk[n].key = <<ret.name, n - 1>>
                /\ ret.dsk[n].task # None
                /\ ret.dsk[n].task[1] = "pd.DataFrame.join"

\* an outer join of two tables whose divisions do not overlap returned a
\* table of three blocks or more
C12_Witness ==
    /\ pc = "returned"
    /\ args.how = "outer"
    /\ Max(Range(args.lhs.divisions)) < Min(Range(args.rhs.divisions))
    /\ Len(ret.dsk) >= 3
    /\ ret.dsk[Len(ret.dsk)].task # None

====
